---- MODULE Spec2Model ----
(***************************************************************************)
(* Model of app.py: the temperature dashboard.  One render pass is the     *)
(* top-to-bottom run of the script (lines 383-449): read the upload,       *)
(* preprocess_temperature_data, generate_custom_color_maps, the regional   *)
(* summary, then the four plot functions.  Data frames are sequences of    *)
(* records in row order; a nullable cell is <<>> (NaN/None) or <<v>>;      *)
(* AvgTemperature is an exact rational [n, d] with d > 0 in lowest terms.  *)
(***************************************************************************)
EXTENDS Integers, Sequences, FiniteSets, TLC

VARIABLES
    uploaded_temp_file, \* <<>> (nothing uploaded) or <<table>>: the uploaded CSV
    city_data,          \* the city reference: sequence of [name, state] rows
    temp_data,          \* the frame read from the upload (the caller's table)
    cleaned_data,       \* result of preprocess_temperature_data
    recleaned,          \* <<>> or <<table>>: preprocess applied to its own output
    colormaps,          \* mpl.colormaps: the process-wide registry (names)
    registered,         \* names registered so far in the current pass
    cmap_i,             \* loop index inside generate_custom_color_maps
    regional_avg_temp,  \* module global: [key, mean] rows, ascending by mean
    seasonal_data,      \* local of plot_seasonal_trends: [Region, Month, mean] rows
    avg_temps,          \* local of plot_global_heatmap: [key, mean] rows
    chart,              \* what the last plot function drew
    idxmax_calls,       \* sizes of the groups handed to idxmax by the last plot
    rendered,           \* charts passed to st.pyplot in the current pass
    empty_selection,    \* multiselects the user left empty in the current pass
    err,                \* "none", or the step of the pass that raised
    pc                  \* position of the script

vars == <<uploaded_temp_file, city_data, temp_data, cleaned_data, recleaned,
          colormaps, registered, cmap_i, regional_avg_temp, seasonal_data,
          avg_temps, chart, idxmax_calls, rendered, empty_selection, err, pc>>

(***************************************************************************)
(* Bounds of the model.                                                    *)
(***************************************************************************)
MaxRows == 2        \* rows of a table whose columns all vary
MaxYearRows == 5    \* rows of a table in which only Year varies
MaxRef == 2         \* rows of the city reference

Null == <<>>
Some(v) == <<v>>

Abs(x) == IF x < 0 THEN -x ELSE x

RECURSIVE GCD(_, _)
GCD(a, b) == IF b = 0 THEN a ELSE GCD(b, a % b)

\* the rational n/d (d > 0) in lowest terms
Rat(n, d) == LET g == GCD(Abs(n), d) IN [n |-> n \div g, d |-> d \div g]

RAdd(x, y) == Rat(x.n * y.d + y.n * x.d, x.d * y.d)
RDivInt(x, k) == Rat(x.n, x.d * k)
RLess(x, y) == x.n * y.d < y.n * x.d
RLeq(x, y) == x.n * y.d <= y.n * x.d

(***************************************************************************)
(* preprocess_temperature_data                                             *)
(***************************************************************************)

\* cities.set_index("name")["state"].to_dict(): a later row for a name wins
InCityToState(cities, c) == \E i \in DOMAIN cities : cities[i].name = c

CityToState(cities, c) ==
    LET f[i \in 0..Len(cities)] ==
            IF i = 0 THEN Null
            ELSE IF cities[i].name = c THEN cities[i].state ELSE f[i - 1]
    IN  f[Len(cities)]

\* variant: a city missing from the reference loses the state it had
DictGetMissesUnknown(cities, row) ==
    IF InCityToState(cities, row.City) THEN CityToState(cities, row.City)
    ELSE Some("Unknown")

\* line 31: city_to_state.get(row["City"], row["State"])
DictGet(cities, row) ==
    IF InCityToState(cities, row.City) THEN CityToState(cities, row.City)
    ELSE row.State

\* .fillna("Unknown")
FillnaUnknown(v) == IF v = Null THEN Some("Unknown") ELSE v

StateStep(df, cities) ==
    [i \in DOMAIN df |->
        [df[i] EXCEPT !.State = FillnaUnknown(DictGet(cities, df[i]))]]

\* ["Day"].replace(0, 1)
DayStep(df) ==
    [i \in DOMAIN df |-> [df[i] EXCEPT !.Day = IF @ = 0 THEN 1 ELSE @]]

\* lambda year: year if 1900 <= year <= 2024 else None   (NaN fails the test)
YearOrNone(y) ==
    IF y # Null /\ 1900 <= y[1] /\ y[1] <= 2024 THEN y ELSE Null

\* fillna(method="ffill") on a column
FFill(col) ==
    LET f[i \in 0..Len(col)] ==
            IF i = 0 THEN Null
            ELSE IF col[i] # Null THEN col[i] ELSE f[i - 1]
    IN  [i \in DOMAIN col |-> f[i]]

\* fillna(method="bfill") on a column
BFill(col) ==
    LET n == Len(col)
        f[k \in 0..n] ==      \* k rows from the end
            IF k = 0 THEN Null
            ELSE IF col[n - k + 1] # Null THEN col[n - k + 1] ELSE f[k - 1]
    IN  [i \in DOMAIN col |-> f[n - i + 1]]

\* variant: the two fills in the other order
YearFillBackwardFirst(col) == FFill(BFill(col))

\* variant: the backward fill left out
YearFillForwardOnly(col) == FFill(col)

\* lines 40-41: forward fill, then backward fill
YearFill(col) == BFill(FFill(col))

YearStep(df) ==
    LET nulled == [i \in DOMAIN df |-> YearOrNone(df[i].Year)]
        filled == YearFill(nulled)
    IN  [i \in DOMAIN df |-> [df[i] EXCEPT !.Year = filled[i]]]

\* variant: the conversion left out
ToCelsiusOmitted(t) == t

\* line 44: (AvgTemperature - 32) * 5 / 9
ToCelsius(t) == Rat((t.n - 32 * t.d) * 5, 9 * t.d)

CelsiusStep(df) ==
    [i \in DOMAIN df |-> [df[i] EXCEPT !.AvgTemperature = ToCelsius(@)]]

\* variant: rows with an invalid Year are dropped instead of filled
PreprocessDropsInvalidYears(data, cities) ==
    CelsiusStep(SelectSeq(DayStep(StateStep(data, cities)),
                          LAMBDA r : YearOrNone(r.Year) # Null))

\* the body of the function, lines 26-46, on the copy of the caller's table

preprocess_temperature_data(data, cities) ==
    CelsiusStep(YearStep(DayStep(StateStep(data, cities))))

\* line 26: the function edits data.copy(), so the caller's frame keeps its rows
CallerFrameAfter(data, cleaned) == data

(***************************************************************************)
(* Inputs.                                                                 *)
(***************************************************************************)
Temperature(f) == Rat(f, 1)

\* rows of an upload in which every cleaned column varies
RawRows ==
    [Region : {"Asia"}, Country : {"Pakistan"},
     State : {Null, Some("Texas")},
     City : {"Springfield", "Karachi"},
     Year : {Some(2099), Some(2005)},
     Month : {1},
     Day : {0, 32},
     AvgTemperature : {Temperature(-40), Temperature(32)}]

\* rows of an upload in which only Year varies (and Day is in range)
YearRows ==
    [Region : {"Asia"}, Country : {"Pakistan"}, State : {Some("Sindh")},
     City : {"Karachi"},
     Year : {Null, Some(1899), Some(1900), Some(2005), Some(2010),
             Some(2024), Some(2025)},
     Month : {1}, Day : {1}, AvgTemperature : {Temperature(50)}]

RefRows == [name : {"Springfield"}, state : {Null, Some("Illinois")}]

Tables(rows, max) == UNION {[1..n -> rows] : n \in 1..max}

CityReferences == UNION {[1..n -> RefRows] : n \in 0..MaxRef}

NoChart == [kind |-> "none"]

InitRest ==
    /\ recleaned = Null
    /\ cleaned_data = <<>>
    /\ colormaps = {"viridis"}
    /\ registered = {}
    /\ cmap_i = 0
    /\ regional_avg_temp = <<>>
    /\ seasonal_data = <<>>
    /\ avg_temps = <<>>
    /\ chart = NoChart
    /\ idxmax_calls = <<>>
    /\ rendered = {}
    /\ empty_selection = {}
    /\ err = "none"

\* the script stands at line 400 with an upload and a reference already read
InitClean ==
    /\ \/ /\ uploaded_temp_file \in {Some(t) : t \in Tables(RawRows, MaxRows)}
          /\ city_data \in CityReferences
       \/ /\ uploaded_temp_file \in {Some(t) : t \in Tables(YearRows, MaxYearRows)}
          /\ city_data = <<>>
    /\ temp_data = uploaded_temp_file[1]
    /\ pc = "preprocess"
    /\ InitRest

(***************************************************************************)
(* Actions.                                                                *)
(***************************************************************************)
\* line 400: cleaned_data = preprocess_temperature_data(temp_data, city_data)
Preprocess ==
    /\ pc = "preprocess"
    /\ cleaned_data' = preprocess_temperature_data(temp_data, city_data)
    /\ temp_data' = CallerFrameAfter(temp_data, cleaned_data')
    /\ cmap_i' = 1
    /\ pc' = "unregister"
    /\ UNCHANGED <<uploaded_temp_file, city_data, recleaned, colormaps,
                   registered, regional_avg_temp, seasonal_data, avg_temps,
                   chart, idxmax_calls, rendered, empty_selection, err>>

\* the function applied to its own output, with the same reference
PreprocessAgain ==
    /\ pc = "unregister"
    /\ recleaned = Null
    /\ recleaned' = Some(preprocess_temperature_data(cleaned_data, city_data))
    /\ UNCHANGED <<uploaded_temp_file, city_data, temp_data, cleaned_data,
                   colormaps, registered, cmap_i, regional_avg_temp,
                   seasonal_data, avg_temps, chart, idxmax_calls, rendered,
                   empty_selection, err, pc>>

NextClean == Preprocess \/ PreprocessAgain

SpecClean == InitClean /\ [][NextClean]_vars

(***************************************************************************)
(* Aggregation: groupby(...)["AvgTemperature"].mean()                      *)
(***************************************************************************)
\* groupby sorts its keys; these list the keys of the model in that order
RegionKeys == <<"Asia", "Europe">>
CountryKeys == <<"India", "Pakistan", "Russia">>
MonthKeys == <<1, 2>>
RegionMonthKeys ==
    [k \in 1..(Len(RegionKeys) * Len(MonthKeys)) |->
        <<RegionKeys[((k - 1) \div Len(MonthKeys)) + 1],
          MonthKeys[((k - 1) % Len(MonthKeys)) + 1]>>]

\* the group key of a row: the cell of the column, or the tuple of the cells
KeyOf(r, by) ==
    IF Len(by) = 1 THEN r[by[1]] ELSE [j \in DOMAIN by |-> r[by[j]]]

ByRegion == <<"Region">>
ByCountry == <<"Country">>
ByRegionMonth == <<"Region", "Month">>

\* variant: the total of the group divided by the rows of the whole table
GroupMeanOverAllRows(df, by, k) ==
    LET f[i \in 0..Len(df)] ==
            IF i = 0 THEN Rat(0, 1)
            ELSE IF KeyOf(df[i], by) = k THEN RAdd(f[i - 1], df[i].AvgTemperature)
            ELSE f[i - 1]
    IN  RDivInt(f[Len(df)], Len(df))

\* .mean() of one group: running total and count over the rows of the group
GroupMean(df, by, k) ==
    LET f[i \in 0..Len(df)] ==
            IF i = 0 THEN [sum |-> Rat(0, 1), count |-> 0]
            ELSE IF KeyOf(df[i], by) = k
                 THEN [sum |-> RAdd(f[i - 1].sum, df[i].AvgTemperature),
                       count |-> f[i - 1].count + 1]
                 ELSE f[i - 1]
    IN  RDivInt(f[Len(df)].sum, f[Len(df)].count)

\* one [key, mean] row per key that occurs in df, in key order
GroupByMean(df, by, keys) ==
    LET present == SelectSeq(keys,
                       LAMBDA k : \E i \in DOMAIN df : KeyOf(df[i], by) = k)
    IN  [j \in DOMAIN present |->
            [key |-> present[j], mean |-> GroupMean(df, by, present[j])]]

\* .sort_values(): any ascending arrangement (the sort is not a stable one)
SortValues(s) ==
    LET n == Len(s)
        perms == {q \in [1..n -> 1..n] : \A a, b \in 1..n : a # b => q[a] # q[b]}
    IN  {[i \in 1..n |-> s[q[i]]] : q \in
            {q \in perms : \A a, b \in 1..n :
                a < b => RLeq(s[q[a]].mean, s[q[b]].mean)}}

\* .unique(): the values of a column in order of first appearance
Unique(df, column) ==
    LET first == SelectSeq([i \in DOMAIN df |-> i],
                     LAMBDA i : \A j \in 1..(i - 1) : df[j][column] # df[i][column])
    IN  [k \in DOMAIN first |-> df[first[k]][column]]

\* what a multiselect can return: the options picked, each at most once
Selections(options) ==
    LET n == Len(options)
    IN  UNION {{[i \in 1..m |-> options[q[i]]] : q \in
                  {q \in [1..m -> 1..n] : \A a, b \in 1..m : a # b => q[a] # q[b]}}
               : m \in 0..n}

\* variant: position of the last largest mean
ArgMaxLast(s) ==
    LET f[i \in 1..Len(s)] ==
            IF i = 1 THEN 1
            ELSE IF RLeq(s[f[i - 1]].mean, s[i].mean) THEN i ELSE f[i - 1]
    IN  f[Len(s)]

\* idxmax / idxmin: linear scan, the first largest (smallest) mean wins
ArgMax(s) ==
    LET f[i \in 1..Len(s)] ==
            IF i = 1 THEN 1
            ELSE IF RLess(s[f[i - 1]].mean, s[i].mean) THEN i ELSE f[i - 1]
    IN  f[Len(s)]

ArgMin(s) ==
    LET f[i \in 1..Len(s)] ==
            IF i = 1 THEN 1
            ELSE IF RLess(s[i].mean, s[f[i - 1]].mean) THEN i ELSE f[i - 1]
    IN  f[Len(s)]

\* index.get_loc(label): the 0-based position of the label
GetLoc(s, label) == (CHOOSE j \in DOMAIN s : s[j].key = label) - 1

(***************************************************************************)
(* generate_custom_color_maps                                              *)
(***************************************************************************)
CmapNames == <<"seasonal_trends", "temperature_trends", "global_heatmap">>
CmapNameSet == {CmapNames[i] : i \in DOMAIN CmapNames}

\* variant: the loop of lines 355-357 left out
UnregisterSkipped(registry, name) == registry

\* lines 356-357: if cmap_name in mpl.colormaps: mpl.colormaps.unregister(...)
Unregister(registry, name) ==
    IF name \in registry THEN registry \ {name} ELSE registry

(***************************************************************************)
(* The uploads and the reference of the render passes.                     *)
(***************************************************************************)
Gazetteer ==
    {[City |-> "Karachi", Country |-> "Pakistan", Region |-> "Asia"],
     [City |-> "Delhi", Country |-> "India", Region |-> "Asia"],
     [City |-> "Moscow", Country |-> "Russia", Region |-> "Europe"]}

\* the days the uploads of the render passes have records for
Dates ==
    {[Year |-> 2000, Month |-> 1], [Year |-> 2000, Month |-> 2],
     [Year |-> 2001, Month |-> 1]}

RenderRows ==
    {[Region |-> g.Region, Country |-> g.Country, State |-> Null,
      City |-> g.City, Year |-> Some(d.Year), Month |-> d.Month, Day |-> 1,
      AvgTemperature |-> Temperature(f)] :
        g \in Gazetteer, d \in Dates, f \in {32, 50}}

RenderReference == <<[name |-> "Moscow", state |-> Some("Moscow Oblast")]>>

\* the countries of the world map the heatmap merges into
WorldCountries == {"India", "Pakistan", "Russia", "Chile"}

(***************************************************************************)
(* The render pass: the script from line 390 to line 449.                  *)
(***************************************************************************)
Init ==
    /\ uploaded_temp_file = Null
    /\ city_data = <<>>
    /\ temp_data = <<>>
    /\ pc = "start"
    /\ InitRest

\* lines 392, 448-449: nothing uploaded, the prompt is shown and nothing runs
NoFileWarning ==
    /\ pc = "start"
    /\ uploaded_temp_file = Null
    /\ pc' = "warned"
    /\ UNCHANGED <<uploaded_temp_file, city_data, temp_data, cleaned_data,
                   recleaned, colormaps, registered, cmap_i, regional_avg_temp,
                   seasonal_data, avg_temps, chart, idxmax_calls, rendered,
                   empty_selection, err>>

\* line 390: the user uploads a file, which reruns the script
Upload ==
    /\ pc = "warned"
    /\ \E t \in Tables(RenderRows, MaxRows) : uploaded_temp_file' = Some(t)
    /\ pc' = "start"
    /\ UNCHANGED <<city_data, temp_data, cleaned_data, recleaned, colormaps,
                   registered, cmap_i, regional_avg_temp, seasonal_data,
                   avg_temps, chart, idxmax_calls, rendered, empty_selection,
                   err>>

\* lines 392-398: both frames are read
ReadCsv ==
    /\ pc = "start"
    /\ uploaded_temp_file # Null
    /\ temp_data' = uploaded_temp_file[1]
    /\ city_data' = RenderReference
    /\ pc' = "preprocess"
    /\ UNCHANGED <<uploaded_temp_file, cleaned_data, recleaned, colormaps,
                   registered, cmap_i, regional_avg_temp, seasonal_data,
                   avg_temps, chart, idxmax_calls, rendered, empty_selection,
                   err>>

\* lines 355-357, one iteration of the loop
UnregisterStep ==
    /\ pc = "unregister"
    /\ colormaps' = Unregister(colormaps, CmapNames[cmap_i])
    /\ cmap_i' = IF cmap_i = Len(CmapNames) THEN 1 ELSE cmap_i + 1
    /\ pc' = IF cmap_i = Len(CmapNames) THEN "register" ELSE "unregister"
    /\ UNCHANGED <<uploaded_temp_file, city_data, temp_data, cleaned_data,
                   recleaned, registered, regional_avg_temp, seasonal_data,
                   avg_temps, chart, idxmax_calls, rendered, empty_selection,
                   err>>

\* lines 359-361, one register call: it raises on a name that is registered
RegisterStep ==
    /\ pc = "register"
    /\ LET name == CmapNames[cmap_i]
           raises == name \in colormaps
       IN  /\ colormaps' = IF raises THEN colormaps ELSE colormaps \cup {name}
           /\ registered' = IF raises THEN registered ELSE registered \cup {name}
           /\ err' = IF raises THEN "register" ELSE err
           /\ pc' = IF raises THEN "error"
                    ELSE IF cmap_i = Len(CmapNames) THEN "regional"
                    ELSE "register"
           /\ cmap_i' = IF raises \/ cmap_i = Len(CmapNames) THEN 0
                        ELSE cmap_i + 1
    /\ UNCHANGED <<uploaded_temp_file, city_data, temp_data, cleaned_data,
                   recleaned, regional_avg_temp, seasonal_data, avg_temps,
                   chart, idxmax_calls, rendered, empty_selection>>

\* lines 405-407: groupby("Region") ... .mean().sort_values()
RegionalSummary ==
    /\ pc = "regional"
    /\ regional_avg_temp' \in
          SortValues(GroupByMean(cleaned_data, ByRegion, RegionKeys))
    /\ pc' = "bar"
    /\ UNCHANGED <<uploaded_temp_file, city_data, temp_data, cleaned_data,
                   recleaned, colormaps, registered, cmap_i, seasonal_data,
                   avg_temps, chart, idxmax_calls, rendered, empty_selection,
                   err>>

\* plot_bar_chart, lines 68-131: the radio, the extreme and its annotation
PlotBarChart ==
    /\ pc = "bar"
    /\ \E selection \in {"Min", "Max"} :
          LET k == IF selection = "Min" THEN ArgMin(regional_avg_temp)
                   ELSE ArgMax(regional_avg_temp)
              temp == regional_avg_temp[k].mean
              region == regional_avg_temp[k].key
          IN  chart' = [kind |-> "bar", selection |-> selection,
                        temp |-> temp, region |-> region,
                        ann_xy |-> <<GetLoc(regional_avg_temp, region), temp>>]
    /\ idxmax_calls' = <<Len(regional_avg_temp)>>
    /\ rendered' = rendered \cup {"bar"}
    /\ pc' = "seasonal"
    /\ UNCHANGED <<uploaded_temp_file, city_data, temp_data, cleaned_data,
                   recleaned, colormaps, registered, cmap_i, regional_avg_temp,
                   seasonal_data, avg_temps, empty_selection, err>>

\* the [key, mean] rows of one region, in Month order
RegionData(seasonal, region) == SelectSeq(seasonal, LAMBDA e : e.key[1] = region)

\* plot_seasonal_trends, lines 143-214, with the multiselect of lines 418-422
PlotSeasonalTrends ==
    /\ pc = "seasonal"
    /\ \E regions \in Selections(Unique(cleaned_data, "Region")) :
          LET seasonal == GroupByMean(cleaned_data, ByRegionMonth, RegionMonthKeys)
              \* the regions the loop does not skip, with their enumerate index
              drawn == SelectSeq([i \in DOMAIN regions |-> i],
                          LAMBDA i : RegionData(seasonal, regions[i]) # <<>>)
              known == "seasonal_trends" \in colormaps
              line(i) ==
                  LET region_data == RegionData(seasonal, regions[i])
                      top == region_data[ArgMax(region_data)]
                  IN  [label |-> regions[i], color |-> i - 1,
                       points |-> region_data,
                       highest |-> <<top.key[2], top.mean>>]
          IN  /\ seasonal_data' = seasonal
              /\ empty_selection' = IF regions = <<>>
                                    THEN empty_selection \cup {"regions"}
                                    ELSE empty_selection
              /\ idxmax_calls' = IF known
                    THEN [j \in DOMAIN drawn |->
                            Len(RegionData(seasonal, regions[drawn[j]]))]
                    ELSE <<>>
              /\ chart' = IF known
                    THEN [kind |-> "seasonal",
                          lines |-> [j \in DOMAIN drawn |-> line(drawn[j])]]
                    ELSE NoChart
              /\ rendered' = IF known THEN rendered \cup {"seasonal"} ELSE rendered
              /\ err' = IF known THEN err ELSE "seasonal"
              /\ pc' = IF known THEN "trends" ELSE "error"
    /\ UNCHANGED <<uploaded_temp_file, city_data, temp_data, cleaned_data,
                   recleaned, colormaps, registered, cmap_i, regional_avg_temp,
                   avg_temps>>

\* plot_temperature_trends, lines 227-281, with the multiselect of lines
\* 431-435 and the year selectbox of lines 229-232
PlotTemperatureTrends ==
    /\ pc = "trends"
    /\ \E cities \in Selections(Unique(cleaned_data, "City")) :
          LET selected_data == SelectSeq(cleaned_data,
                                  LAMBDA r : \E k \in DOMAIN cities : r.City = cities[k])
              options == Unique(selected_data, "Year")
              years == IF options = <<>> THEN {Null}
                       ELSE {options[k] : k \in DOMAIN options}
          IN  \E selected_year \in years :
                LET in_year == SelectSeq(selected_data, LAMBDA r : r.Year = selected_year)
                    \* city_data of each pass of the loop
                    groups == [k \in DOMAIN cities |->
                                 SelectSeq(in_year, LAMBDA r : r.City = cities[k])]
                    known == "temperature_trends" \in colormaps
                    \* the loop stops at the first city whose idxmax raises
                    empty == {k \in DOMAIN cities : groups[k] = <<>>}
                    last == IF ~known THEN 0
                            ELSE IF empty = {} THEN Len(cities)
                            ELSE CHOOSE k \in empty : \A j \in empty : k <= j
                    raises == ~known \/ empty # {}
                    points(rows) ==
                        [j \in DOMAIN rows |->
                            [key |-> <<rows[j].Year, rows[j].Month, rows[j].Day>>,
                             mean |-> rows[j].AvgTemperature]]
                    line(k) ==
                        LET pts == points(groups[k])
                            top == pts[ArgMax(pts)]
                        IN  [label |-> cities[k], color |-> k - 1,
                             points |-> pts, highest |-> <<top.key, top.mean>>]
                IN  /\ idxmax_calls' = [k \in 1..last |-> Len(groups[k])]
                    /\ empty_selection' = IF cities = <<>>
                                          THEN empty_selection \cup {"cities"}
                                          ELSE empty_selection
                    /\ chart' = IF raises THEN NoChart
                          ELSE [kind |-> "trends", year |-> selected_year,
                                lines |-> [k \in DOMAIN cities |-> line(k)]]
                    /\ rendered' = IF raises THEN rendered
                                   ELSE rendered \cup {"trends"}
                    /\ err' = IF raises THEN "trends" ELSE err
                    /\ pc' = IF raises THEN "error" ELSE "heatmap"
    /\ UNCHANGED <<uploaded_temp_file, city_data, temp_data, cleaned_data,
                   recleaned, colormaps, registered, cmap_i, regional_avg_temp,
                   seasonal_data, avg_temps>>

\* plot_global_heatmap, lines 292-338
PlotGlobalHeatmap ==
    /\ pc = "heatmap"
    /\ LET temps == GroupByMean(cleaned_data, ByCountry, CountryKeys)
           known == "global_heatmap" \in colormaps
           top == temps[ArgMax(temps)]
       IN  /\ avg_temps' = temps
           /\ idxmax_calls' = IF known THEN <<Len(temps)>> ELSE <<>>
           /\ chart' = IF known
                 THEN [kind |-> "heatmap",
                       no_data |-> {c \in WorldCountries :
                                       \A j \in DOMAIN temps : temps[j].key # c},
                       highest |-> <<top.key, top.mean>>]
                 ELSE NoChart
           /\ rendered' = IF known THEN rendered \cup {"heatmap"} ELSE rendered
           /\ err' = IF known THEN err ELSE "heatmap"
           /\ pc' = IF known THEN "done" ELSE "error"
    /\ UNCHANGED <<uploaded_temp_file, city_data, temp_data, cleaned_data,
                   recleaned, colormaps, registered, cmap_i, regional_avg_temp,
                   seasonal_data, empty_selection>>

\* any later interaction (a widget change) runs the script again from the top:
\* the page and the script's names start anew, the registry lives on
Rerun ==
    /\ pc \in {"done", "error"}
    /\ cleaned_data' = <<>>
    /\ registered' = {}
    /\ cmap_i' = 0
    /\ regional_avg_temp' = <<>>
    /\ seasonal_data' = <<>>
    /\ avg_temps' = <<>>
    /\ chart' = NoChart
    /\ idxmax_calls' = <<>>
    /\ rendered' = {}
    /\ empty_selection' = {}
    /\ err' = "none"
    /\ pc' = "start"
    /\ UNCHANGED <<uploaded_temp_file, city_data, temp_data, recleaned, colormaps>>

Next ==
    \/ NoFileWarning
    \/ Upload
    \/ ReadCsv
    \/ Preprocess
    \/ UnregisterStep
    \/ RegisterStep
    \/ RegionalSummary
    \/ PlotBarChart
    \/ PlotSeasonalTrends
    \/ PlotTemperatureTrends
    \/ PlotGlobalHeatmap
    \/ Rerun

Spec == Init /\ [][Next]_vars

(***************************************************************************)
(* Properties of preprocess_temperature_data (checked under SpecClean).   *)
(***************************************************************************)
Cleaned == pc # "preprocess"
Raw == uploaded_temp_file[1]
ValidYear(y) == y # Null /\ y[1] >= 1900 /\ y[1] <= 2024
MaxOf(S) == CHOOSE x \in S : \A y \in S : y <= x
MinOf(S) == CHOOSE x \in S : \A y \in S : x <= y
WithoutTemperature(r) == [r EXCEPT !.AvgTemperature = Temperature(0)]

\* C1 (as claimed): cleaning the cleaned table again gives the cleaned table
\* back, in every column.
C1_IdempotentAllColumns ==
    recleaned # Null => recleaned[1] = cleaned_data

\* C1 (amended): cleaning the cleaned table again changes no column but
\* AvgTemperature; AvgTemperature t becomes (t - 32) * 5 / 9 once more, which
\* equals t only for t = -40.
C1_IdempotentExceptTemperature ==
    recleaned # Null =>
        /\ Len(recleaned[1]) = Len(cleaned_data)
        /\ \A i \in DOMAIN cleaned_data :
              LET c == cleaned_data[i]
                  r == recleaned[1][i]
              IN  /\ WithoutTemperature(r) = WithoutTemperature(c)
                  /\ r.State = c.State /\ r.Day = c.Day /\ r.Year = c.Year
                  /\ 9 * r.AvgTemperature.n * c.AvgTemperature.d
                        = 5 * (c.AvgTemperature.n - 32 * c.AvgTemperature.d)
                            * r.AvgTemperature.d
                  /\ (r.AvgTemperature = c.AvgTemperature)
                        <=> (c.AvgTemperature = Temperature(-40))

C1_Witness ==
    /\ recleaned # Null
    /\ \E i \in DOMAIN Raw :
          /\ Raw[i].Day = 0 /\ Raw[i].State = Null /\ ~ValidYear(Raw[i].Year)
          /\ recleaned[1][i].AvgTemperature # cleaned_data[i].AvgTemperature
    /\ \E i \in DOMAIN Raw :
          recleaned[1][i].AvgTemperature = cleaned_data[i].AvgTemperature

HasValidYear == \E i \in DOMAIN Raw : ValidYear(Raw[i].Year)

\* C2 (as claimed): when the input holds a valid year, every cleaned record
\* has Day in 1..31 and Year in 1900..2024, whatever the input carried.
C2_DayAndYearInRange ==
    (Cleaned /\ HasValidYear) =>
        \A i \in DOMAIN cleaned_data :
            /\ cleaned_data[i].Day \in 1..31
            /\ ValidYear(cleaned_data[i].Year)

\* C2 (amended): when the input holds a valid year, every cleaned record has
\* Year in 1900..2024; Day is the input Day except that 0 became 1, so Day is
\* never 0 and is in 1..31 exactly when the input Day was in 0..31.
C2_YearInRangeDayNotZero ==
    (Cleaned /\ HasValidYear) =>
        \A i \in DOMAIN cleaned_data :
            /\ ValidYear(cleaned_data[i].Year)
            /\ cleaned_data[i].Day # 0
            /\ Raw[i].Day # 0 => cleaned_data[i].Day = Raw[i].Day
            /\ (cleaned_data[i].Day \in 1..31) <=> (Raw[i].Day \in 0..31)

C2_Witness ==
    /\ Cleaned /\ Len(Raw) >= 2
    /\ ~ValidYear(Raw[1].Year) /\ Raw[1].Day = 0
    /\ \E i \in DOMAIN Raw : ValidYear(Raw[i].Year)
    /\ \E i \in DOMAIN Raw : Raw[i].Day = 32

\* the reference's value for a city: the state of the last row with that name
InReference(c) == \E j \in DOMAIN city_data : city_data[j].name = c
Referenced(c) ==
    city_data[MaxOf({j \in DOMAIN city_data : city_data[j].name = c})].state

\* C3 (as claimed): a city in the reference gets the referenced state; an
\* absent city with a null state gets "Unknown"; an absent city with a state
\* keeps it; the output state is never null.
C3_StateResolution ==
    Cleaned =>
        \A i \in DOMAIN cleaned_data :
            LET out == cleaned_data[i].State
            IN  /\ InReference(Raw[i].City) => out = Referenced(Raw[i].City)
                /\ (~InReference(Raw[i].City) /\ Raw[i].State = Null)
                      => out = Some("Unknown")
                /\ (~InReference(Raw[i].City) /\ Raw[i].State # Null)
                      => out = Raw[i].State
                /\ out # Null

\* C3 (amended): as C3, except that a city whose referenced state is null
\* gets "Unknown" (also when the record had a state of its own).
C3_StateResolutionNullReference ==
    Cleaned =>
        \A i \in DOMAIN cleaned_data :
            LET out == cleaned_data[i].State
            IN  /\ (InReference(Raw[i].City) /\ Referenced(Raw[i].City) # Null)
                      => out = Referenced(Raw[i].City)
                /\ (InReference(Raw[i].City) /\ Referenced(Raw[i].City) = Null)
                      => out = Some("Unknown")
                /\ (~InReference(Raw[i].City) /\ Raw[i].State = Null)
                      => out = Some("Unknown")
                /\ (~InReference(Raw[i].City) /\ Raw[i].State # Null)
                      => out = Raw[i].State
                /\ out # Null

C3_Witness ==
    /\ Cleaned /\ Len(city_data) = 2 /\ Len(Raw) = 2
    /\ city_data[1].state = Null /\ city_data[2].state = Some("Illinois")
    /\ Raw[1].City = "Springfield" /\ Raw[1].State = Some("Texas")
    /\ cleaned_data[1].State = Some("Illinois")
    /\ Raw[2].City = "Karachi" /\ Raw[2].State = Null
    /\ cleaned_data[2].State = Some("Unknown")

\* C4: a valid Year is kept; an invalid Year becomes the nearest valid Year
\* before it in row order, or, when none precedes it, the nearest valid Year
\* after it; when no Year is valid every output Year is null.
C4_YearCorrection ==
    Cleaned =>
        \A i \in DOMAIN cleaned_data :
            LET before == {j \in 1..(i - 1) : ValidYear(Raw[j].Year)}
                after == {j \in (i + 1)..Len(Raw) : ValidYear(Raw[j].Year)}
                out == cleaned_data[i].Year
            IN  IF ValidYear(Raw[i].Year) THEN out = Raw[i].Year
                ELSE IF before # {} THEN out = Raw[MaxOf(before)].Year
                ELSE IF after # {} THEN out = Raw[MinOf(after)].Year
                ELSE out = Null

C4_Witness ==
    /\ Cleaned
    /\ [i \in DOMAIN Raw |-> Raw[i].Year]
          = <<Null, Some(2005), Some(2025), Null, Some(2010)>>
    /\ [i \in DOMAIN cleaned_data |-> cleaned_data[i].Year]
          = <<Some(2005), Some(2005), Some(2005), Some(2005), Some(2010)>>

RECURSIVE SumOver(_, _)
SumOver(df, I) ==
    IF I = {} THEN Rat(0, 1)
    ELSE LET i == CHOOSE i \in I : TRUE
         IN  RAdd(df[i].AvgTemperature, SumOver(df, I \ {i}))

\* summary holds one row per key met in df, and its mean is the arithmetic
\* mean of AvgTemperature over exactly the rows of df with that key
IsGroupMean(summary, df, by) ==
    /\ {summary[j].key : j \in DOMAIN summary} = {KeyOf(df[i], by) : i \in DOMAIN df}
    /\ \A a, b \in DOMAIN summary : a # b => summary[a].key # summary[b].key
    /\ \A j \in DOMAIN summary :
          LET group == {i \in DOMAIN df : KeyOf(df[i], by) = summary[j].key}
              total == SumOver(df, group)
          IN  /\ group # {}
              /\ summary[j].mean.n * total.d * Cardinality(group)
                    = total.n * summary[j].mean.d

\* C6: each summary (by Region, by Region and Month, by Country) has exactly
\* the observed keys, each with the arithmetic mean of its own records; the
\* region summary is in ascending order of mean.
C6_Aggregation ==
    /\ pc \in {"bar", "seasonal", "trends", "heatmap", "done"} =>
          /\ regional_avg_temp # <<>>
          /\ IsGroupMean(regional_avg_temp, cleaned_data, ByRegion)
          /\ \A a, b \in DOMAIN regional_avg_temp :
                a < b => RLeq(regional_avg_temp[a].mean, regional_avg_temp[b].mean)
    /\ pc \in {"trends", "heatmap", "done"} =>
          IsGroupMean(seasonal_data, cleaned_data, ByRegionMonth)
    /\ pc = "done" => IsGroupMean(avg_temps, cleaned_data, ByCountry)

C6_Witness ==
    /\ pc = "done"
    /\ Len(regional_avg_temp) = 1 /\ Len(avg_temps) = 2 /\ Len(seasonal_data) = 2
    /\ regional_avg_temp[1].mean = Temperature(5)
    /\ avg_temps[1].mean # avg_temps[2].mean

\* C7: the bar chart's extreme is the minimum (Min) or maximum (Max) mean of
\* the region summary; among regions that tie on it, the first in the
\* summary's order is returned, and the annotation sits at its position.
C7_ExtremeLookup ==
    chart.kind = "bar" =>
        LET s == regional_avg_temp
            extreme == {p \in DOMAIN s : \A j \in DOMAIN s :
                          IF chart.selection = "Min" THEN RLeq(s[p].mean, s[j].mean)
                          ELSE RLeq(s[j].mean, s[p].mean)}
            first == MinOf(extreme)
        IN  /\ chart.temp = s[first].mean
            /\ chart.region = s[first].key
            /\ chart.ann_xy = <<first - 1, s[first].mean>>

C7_Witness ==
    /\ chart.kind = "bar" /\ chart.selection = "Max"
    /\ Len(regional_avg_temp) = 2
    /\ regional_avg_temp[1].mean = regional_avg_temp[2].mean
    /\ chart.region = regional_avg_temp[1].key

AllCharts == {"bar", "seasonal", "trends", "heatmap"}

\* C8: a pass in which the user left the regions or the cities empty raises
\* nothing and, once over, has rendered every chart, the heatmap included.
C8_EmptySelectionCompletes ==
    empty_selection # {} =>
        /\ err = "none"
        /\ pc = "done" => rendered = AllCharts

\* what does hold of an empty selection: the chart drawn from it is empty and
\* does not raise; with no city selected the pass ends with all four charts;
\* a pass with no region selected can only fail later, in the city loop.
EmptySelectionItselfIsHarmless ==
    /\ (chart.kind = "seasonal" /\ "regions" \in empty_selection)
          => chart.lines = <<>> /\ pc = "trends"
    /\ "cities" \in empty_selection =>
          /\ err = "none"
          /\ pc = "done" => rendered = AllCharts
    /\ (empty_selection # {} /\ err # "none") =>
          /\ err = "trends"
          /\ \E k \in DOMAIN idxmax_calls : idxmax_calls[k] = 0

\* C9: the maximum lookups of a plot are made on non-empty groups only: a
\* selected city without records in the selected year is skipped.
C9_MaxLookupOnNonEmptyGroup ==
    \A k \in DOMAIN idxmax_calls : idxmax_calls[k] > 0

\* C10: in every pass, no name is registered while it is still registered;
\* once generate_custom_color_maps has returned the registry holds each of
\* the three names, registered in this pass, and no lookup of them fails.
C10_ColormapRegistry ==
    /\ pc = "register" => CmapNames[cmap_i] \notin colormaps
    /\ err \notin {"register", "seasonal", "heatmap"}
    /\ err = "trends" => "temperature_trends" \in colormaps
    /\ pc \in {"regional", "bar", "seasonal", "trends", "heatmap", "done"} =>
          /\ CmapNameSet \subseteq colormaps
          /\ registered = CmapNameSet
          /\ "viridis" \in colormaps

\* a later pass: the names of the pass before are being unregistered
C10_Witness ==
    /\ pc = "unregister" /\ cmap_i = 2
    /\ colormaps = {"viridis", "temperature_trends", "global_heatmap"}
    /\ chart = NoChart

====
